---- MODULE Spec2Model ----
(***************************************************************************)
(* Model of pyz (src/src/pyz.py): build() assembles a Python zip           *)
(* application from include items, generates its __main__.py and           *)
(* optionally writes a unix launcher.                                      *)
(*                                                                         *)
(* Paths are sequences of segments; an absolute path starts with the       *)
(* segment "/".  A file on disk is a record: the bytes in front of the     *)
(* archive (prefix), the archive members in the order written, and whether *)
(* the archive's central directory has been written (closed).              *)
(***************************************************************************)
EXTENDS Integers, Sequences, FiniteSets, TLC

VARIABLES
    pc,        \* position of the running build() call
    req,       \* arguments of the build() call
    cwd,       \* process working directory
    cwd0,      \* working directory at the moment build() was called
    old_cwd,   \* local old_cwd of write_zip_app
    idx,       \* number of include items handed to add_include_path
    err,       \* exception in flight / raised by build()
    failedAt,  \* index of the include item that raised (0: none)
    files,     \* output files: path -> content
    written,   \* members written through the open ZipFile by this call
    room,      \* members the output device has room for (None: no limit)
    runs,      \* number of build() calls started
    prev,      \* output files as the previous completed call left them
    gpc,       \* position of the bootstrap scenario
    vr,        \* VersionRequirement under test
    main_text, \* text returned by generate_main
    v,         \* sys.version_info of the interpreter running __main__.py
    exited     \* whether __main__.py reached sys.exit(1)

bvars == <<pc, req, cwd, cwd0, old_cwd, idx, err, failedAt, files, written, room, runs, prev>>
gvars == <<gpc, vr, main_text, v, exited>>
vars == <<pc, req, cwd, cwd0, old_cwd, idx, err, failedAt, files, written, room, runs, prev,
          gpc, vr, main_text, v, exited>>

\* An optional argument is None or Some(value).
None == {}
Some(x) == {x}
Get(o) == CHOOSE x \in o : TRUE

(***************************************************************************)
(* Bounds.                                                                 *)
(***************************************************************************)
MaxIncludes == 2
MaxRuns == 2
MaxMinor == 1
MaxMicro == 1

(***************************************************************************)
(* Python tuple comparison, as used by the generated guard: v is the       *)
(* 5-tuple sys.version_info, the operand a configured tuple.               *)
(***************************************************************************)
MinOf(S) == CHOOSE x \in S : \A y \in S : x <= y

FirstDiff(a, b) ==
    LET n == IF Len(a) < Len(b) THEN Len(a) ELSE Len(b)
    IN  {i \in 1..n : \A j \in 1..i : (j < i) = (a[j] = b[j])}

PyTupleLt(a, b) ==
    LET d == FirstDiff(a, b)
    IN  IF d = {} THEN Len(a) < Len(b) ELSE a[MinOf(d)] < b[MinOf(d)]

PyTupleCompare(op, a, b) ==
    CASE op = "<"  -> PyTupleLt(a, b)
      [] op = ">"  -> PyTupleLt(b, a)
      [] op = ">=" -> ~PyTupleLt(a, b)

(***************************************************************************)
(* str(tuple) as a token sequence "(" n "," n "," n ")" and the tuple the  *)
(* Python parser reads back from it.                                       *)
(***************************************************************************)
TupleStr(t) ==
    [i \in 1..(2 * Len(t) + 1) |->
        IF i = 1 THEN "("
        ELSE IF i = 2 * Len(t) + 1 THEN ")"
        ELSE IF i % 2 = 0 THEN t[i \div 2] ELSE ","]

TupleLiteral(s) == [i \in 1..((Len(s) - 1) \div 2) |-> s[2 * i]]

(***************************************************************************)
(* class VersionRequirement                                                *)
(***************************************************************************)
VersionRequirement(minimum, maximum, exclusive_maximum) ==
    [minimum |-> minimum, maximum |-> maximum, exclusive_maximum |-> exclusive_maximum]

(***************************************************************************)
(* generate_main: the version checks joined by " or ", the dotted module   *)
(* reference and the main function name.                                   *)
(***************************************************************************)
MinimumCheck_Dropped(r) == <<>>

MinimumCheck(r) ==
    IF r.minimum = None THEN <<>>
    ELSE <<[op |-> "<", operand |-> TupleStr(Get(r.minimum))]>>

MaximumCheck(r) ==
    IF r.maximum = None THEN <<>>
    ELSE <<[op |-> (IF r.exclusive_maximum THEN ">=" ELSE ">"),
            operand |-> TupleStr(Get(r.maximum))]>>

VersionChecks(r) == MinimumCheck(r) \o MaximumCheck(r)

SupportedStr(r) ==
    [minimum_version_str |-> IF r.minimum = None THEN <<>> ELSE <<Get(r.minimum), " <= ">>,
     maximum_version_str |-> IF r.maximum = None THEN <<>>
                             ELSE <<(IF r.exclusive_maximum THEN "<" ELSE "<="), Get(r.maximum)>>]

VersionCode(version_requirement) ==
    IF version_requirement = None THEN <<>>
    ELSE LET r == Get(version_requirement)
         IN  IF VersionChecks(r) = <<>> THEN <<>>
             ELSE <<[version_check |-> VersionChecks(r), supported |-> SupportedStr(r)]>>

\* os.path.normpath(main_path).split(os.path.sep), empty packages dropped
RECURSIVE NormPath(_)
NormPath(p) ==
    IF p = <<>> THEN <<>>
    ELSE LET init == NormPath(SubSeq(p, 1, Len(p) - 1))
             last == p[Len(p)]
         IN  IF last = "." \/ last = "" THEN init
             ELSE IF last = ".." /\ init # <<>> /\ init[Len(init)] \notin {"..", "/"}
                  THEN SubSeq(init, 1, Len(init) - 1)
             ELSE IF last = ".." /\ init = <<"/">> THEN init
             ELSE Append(init, last)

ModuleReference(main_path) == SelectSeq(NormPath(main_path), LAMBDA s : s # "/")

generate_main(main_path, main_function, version_requirement) ==
    [version_code |-> VersionCode(version_requirement),
     module |-> ModuleReference(main_path),
     function |-> IF main_function = None THEN "main" ELSE Get(main_function)]

(***************************************************************************)
(* Running the generated __main__.py under an interpreter whose            *)
(* sys.version_info is info: TRUE when the guard reaches sys.exit(1).      *)
(***************************************************************************)
GuardTriggers(text, info) ==
    \E b \in 1..Len(text.version_code) :
        \E c \in 1..Len(text.version_code[b].version_check) :
            LET chk == text.version_code[b].version_check[c]
            IN  PyTupleCompare(chk.op, info, TupleLiteral(chk.operand))

(***************************************************************************)
(* The source tree on disk, as os.path.isfile / os.walk see it.  Each      *)
(* directory lists its entries in the order the operating system returns  *)
(* them.                                                                   *)
(***************************************************************************)
StartDir == <<"/", "start">>
ProjDir == <<"/", "proj">>

DirEntries ==
    { [path |-> StartDir, dirs |-> <<>>, files |-> <<>>],
      [path |-> ProjDir, dirs |-> <<"lib", "priv">>, files |-> <<"main.py">>],
      [path |-> <<"/", "proj", "lib">>, dirs |-> <<"sub">>, files |-> <<"a.py", "b.txt">>],
      [path |-> <<"/", "proj", "lib", "sub">>, dirs |-> <<>>, files |-> <<"c.py", "d.txt">>],
      [path |-> <<"/", "proj", "priv">>, dirs |-> <<>>, files |-> <<"k.py", "secret.py">>] }

Unreadable == { <<"/", "proj", "priv", "secret.py">> }

IsDir(p) == \E e \in DirEntries : e.path = p
ListDir(p) == CHOOSE e \in DirEntries : e.path = p
FileSet == UNION { {Append(e.path, e.files[k]) : k \in 1..Len(e.files)} : e \in DirEntries }

\* os.path.isabs, os.path.join(a, b), os.path.isfile relative to the cwd
IsAbs(p) == p # <<>> /\ p[1] = "/"
Join(a, b) == IF IsAbs(b) THEN b ELSE a \o b
AbsPath(dir, p) == NormPath(Join(dir, p))
IsFile(dir, p) == AbsPath(dir, p) \in FileSet
Readable(dir, p) == IsFile(dir, p) /\ AbsPath(dir, p) \notin Unreadable

(***************************************************************************)
(* fnmatch: shell-style matching of a file name against a glob, both       *)
(* taken character by character.                                           *)
(***************************************************************************)
Chars(s) ==
    CASE s = "main.py"   -> <<"m", "a", "i", "n", ".", "p", "y">>
      [] s = "a.py"      -> <<"a", ".", "p", "y">>
      [] s = "b.txt"     -> <<"b", ".", "t", "x", "t">>
      [] s = "c.py"      -> <<"c", ".", "p", "y">>
      [] s = "d.txt"     -> <<"d", ".", "t", "x", "t">>
      [] s = "k.py"      -> <<"k", ".", "p", "y">>
      [] s = "secret.py" -> <<"s", "e", "c", "r", "e", "t", ".", "p", "y">>
      [] s = "*.py"      -> <<"*", ".", "p", "y">>
      [] s = "?.py"      -> <<"?", ".", "p", "y">>
      [] s = "*"         -> <<"*">>

RECURSIVE GlobMatch(_, _)
GlobMatch(pat, name) ==
    IF pat = <<>> THEN name = <<>>
    ELSE IF Head(pat) = "*"
         THEN GlobMatch(Tail(pat), name) \/ (name # <<>> /\ GlobMatch(pat, Tail(name)))
    ELSE name # <<>> /\ (Head(pat) = "?" \/ Head(pat) = Head(name))
         /\ GlobMatch(Tail(pat), Tail(name))

fnmatch(name, glob) == GlobMatch(Chars(glob), Chars(name))

fnmatch_filter_All(filenames, glob) == filenames

fnmatch_filter(filenames, glob) == SelectSeq(filenames, LAMBDA n : fnmatch(n, glob))

(***************************************************************************)
(* os.walk(top), top-down, relative to the cwd: one (dirpath, dirnames,    *)
(* filenames) entry per directory; nothing when top is not a directory.    *)
(***************************************************************************)
RECURSIVE os_walk(_, _), walk_subdirs(_, _, _)
os_walk(dir, top) ==
    IF ~IsDir(AbsPath(dir, top)) THEN <<>>
    ELSE LET e == ListDir(AbsPath(dir, top))
         IN  <<[dirpath |-> top, dirnames |-> e.dirs, filenames |-> e.files]>>
             \o walk_subdirs(dir, top, e.dirs)
walk_subdirs(dir, top, names) ==
    IF names = <<>> THEN <<>>
    ELSE os_walk(dir, Append(top, Head(names))) \o walk_subdirs(dir, top, Tail(names))

(***************************************************************************)
(* class Include, class Unixify                                            *)
(***************************************************************************)
Include(source_path, destination_path, glob) ==
    [source_path |-> source_path,
     destination_path |-> IF destination_path = None THEN source_path
                          ELSE Get(destination_path),
     glob |-> IF glob = None THEN "*.py" ELSE Get(glob)]

Unixify(out_file_path, shebang) ==
    [out_file_path |-> out_file_path,
     shebang |-> IF shebang = None THEN "/usr/bin/env python" ELSE Get(shebang)]

(***************************************************************************)
(* add_include_path: the zip_file.write(filename, arcname) calls it makes, *)
(* in order, and the exception it raises.  zip_file.write opens the source *)
(* file, so the first unreadable file ends the calls with an IOError.      *)
(***************************************************************************)
NoError == "none"

DirectoryMapped_Never(include) == FALSE

DirectoryMapped(include) == include.source_path # include.destination_path

RECURSIVE WalkedFiles(_, _)
WalkedFiles(infos, glob) ==
    IF infos = <<>> THEN <<>>
    ELSE LET names == fnmatch_filter(Head(infos).filenames, glob)
         IN  [k \in 1..Len(names) |-> Join(Head(infos).dirpath, <<names[k]>>)]
             \o WalkedFiles(Tail(infos), glob)

WriteCalls(dir, archive_path, filepaths, arcs) ==
    LET bad == {k \in 1..Len(filepaths) : ~Readable(dir, filepaths[k])}
        n == IF bad = {} THEN Len(filepaths) ELSE MinOf(bad) - 1
    IN  [writes |-> [k \in 1..n |-> [filename |-> filepaths[k],
                                     arcname |-> Join(archive_path, arcs[k])]],
         error |-> IF bad = {} THEN NoError ELSE "IOError"]

add_include_path(dir, archive_path, include) ==
    IF IsFile(dir, include.source_path)
    THEN WriteCalls(dir, archive_path, <<include.source_path>>, <<include.destination_path>>)
    ELSE IF DirectoryMapped(include)
         THEN [writes |-> <<>>, error |-> "ValueError"]
    ELSE LET filepaths == WalkedFiles(os_walk(dir, include.source_path), include.glob)
         IN  WriteCalls(dir, archive_path, filepaths, filepaths)

(***************************************************************************)
(* Output files and the zipfile.ZipFile / open() calls build() makes on    *)
(* them.                                                                   *)
(***************************************************************************)
OutFile == "/out/app.pyz"
SecondOut == "/out/app"
OutPaths == {OutFile, SecondOut}

NoFile == [exists |-> FALSE, prefix |-> <<>>, members |-> <<>>, closed |-> FALSE]

\* zipfile.ZipFile(file_path, mode): 'w' truncates, 'a' appends to what is there
ZipFile(f, mode) ==
    IF mode = "w" THEN [exists |-> TRUE, prefix |-> <<>>, members |-> <<>>, closed |-> FALSE]
    ELSE [f EXCEPT !.exists = TRUE, !.closed = FALSE]

\* the member name zip_file.write stores: normalised, leading separators removed
ZipArcname(arcname) == SelectSeq(NormPath(arcname), LAMBDA s : s # "/")

FileMember(dir, call) ==
    [name |-> ZipArcname(call.arcname), source |-> AbsPath(dir, call.filename), text |-> <<>>]

MainName == <<"__main__.py">>

bootstrap_writes_None(archive_source_base_path, r) == <<>>

\* pyz.writestr("__main__.py", generate_main(...))
bootstrap_writes(archive_source_base_path, r) ==
    << [name |-> MainName, source |-> <<>>,
        text |-> <<generate_main(Join(archive_source_base_path, r.main_module_path),
                                 r.main_function, r.version_requirement)>>] >>

ShebangLine_NoNewline(unixify) == <<"#!", unixify.shebang>>

\* "#!{0}\n".format(unixify.shebang)
ShebangLine(unixify) == <<"#!", unixify.shebang, "\n">>

write_unix_Append(fs, unixify, file_path, append_file_path) ==
    LET src == IF append_file_path = None THEN NoFile ELSE fs[Get(append_file_path)]
    IN  [fs EXCEPT ![file_path] =
            [exists |-> TRUE,
             prefix |-> fs[file_path].prefix \o <<ShebangLine(unixify)>> \o src.prefix,
             members |-> fs[file_path].members \o src.members,
             closed |-> src.closed]]

\* open(file_path, "wb") truncates the file; the shebang is written and the
\* other file, as it is on disk at that moment, is copied behind it.
write_unix(fs, unixify, file_path, append_file_path) ==
    LET truncated == [fs EXCEPT ![file_path] = [NoFile EXCEPT !.exists = TRUE]]
        src == IF append_file_path = None THEN NoFile ELSE truncated[Get(append_file_path)]
    IN  [fs EXCEPT ![file_path] =
            [exists |-> TRUE,
             prefix |-> <<ShebangLine(unixify)>> \o src.prefix,
             members |-> src.members,
             closed |-> src.closed]]

(***************************************************************************)
(* build(): control flow.                                                  *)
(***************************************************************************)
ArchiveSourceBasePath(r) ==
    IF r.archive_source_base = None THEN <<"dist">> ELSE Get(r.archive_source_base)

SingleOutput(r) == r.unixify # None /\ Get(r.unixify).out_file_path = None
TwoOutput(r) == r.unixify # None /\ Get(r.unixify).out_file_path # None

ZipMode(r) == IF SingleOutput(r) THEN "a" ELSE "w"

FirstStep(r) == IF SingleOutput(r) THEN "write_unix_first" ELSE "zip_open"

\* where write_zip_app continues once i include items are done with exception e
AfterIncludes(r, i, e) ==
    IF e # NoError THEN (IF r.include_directory = None THEN "close" ELSE "restore")
    ELSE IF i < Len(r.includes) THEN "add_includes"
    ELSE IF r.include_directory = None THEN "write_main" ELSE "restore"

\* the writes the ZipFile completes out of those attempted, and the exception:
\* a write the output device has no room for raises an IOError
Completed(ws, e, space, nwritten) ==
    IF space = None \/ nwritten + Len(ws) <= Get(space)
    THEN [writes |-> ws, error |-> e]
    ELSE [writes |-> SubSeq(ws, 1, Get(space) - nwritten), error |-> "IOError"]

RestoredCwd_OnSuccess(old, cur, e) == IF e = NoError THEN old ELSE cur

\* finally: os.chdir(old_cwd)
RestoredCwd(old, cur, e) == old

(***************************************************************************)
(* Arguments build() is called with.                                       *)
(***************************************************************************)
IncludeChoices ==
    { Include(<<"main.py">>, None, None),
      Include(<<"main.py">>, Some(<<"pkg", "m.py">>), None),
      Include(<<"lib">>, None, None),
      Include(<<"lib">>, Some(<<"lib">>), Some("*")),
      Include(<<"lib">>, Some(<<"other">>), Some("?.py")),
      Include(<<"missing.py">>, None, None),
      Include(<<"priv">>, None, None),
      Include(<<"priv", "secret.py">>, None, None),
      Include(<<"/", "proj", "lib">>, None, None) }

IncludeLists == UNION { [1..n -> IncludeChoices] : n \in 0..MaxIncludes }

IncludeDirectories == {None, Some(ProjDir), Some(<<"/", "missing">>)}

UnixifyChoices ==
    { None,
      Some(Unixify(None, None)),
      Some(Unixify(Some(SecondOut), Some("/usr/bin/python3"))),
      Some(Unixify(Some(OutFile), None)) }

ArchiveSourceBases == {None, Some(<<"app">>)}

\* the output device takes every member, or fails the write after the first one
DiskRooms == {None, Some(1)}

NoRequest ==
    [out_file_path |-> OutFile, main_module_path |-> <<"main">>, includes |-> <<>>,
     include_directory |-> None, main_function |-> None, version_requirement |-> None,
     archive_source_base |-> None, unixify |-> None]

InitBuild ==
    /\ pc = "idle"
    /\ req = NoRequest
    /\ cwd = StartDir
    /\ cwd0 = StartDir
    /\ old_cwd = StartDir
    /\ idx = 0
    /\ err = NoError
    /\ failedAt = 0
    /\ files = [p \in OutPaths |-> NoFile]
    /\ written = <<>>
    /\ room = None
    /\ runs = 0
    /\ prev = [p \in OutPaths |-> NoFile]

\* build(out_file_path, main_module_path, includes, ...) is entered
CallBuild ==
    /\ pc = "idle"
    /\ \E incs \in IncludeLists, d \in IncludeDirectories,
          u \in UnixifyChoices, b \in ArchiveSourceBases, space \in DiskRooms :
          /\ room' = space
          /\ req' = [NoRequest EXCEPT !.includes = incs, !.include_directory = d,
                                      !.unixify = u, !.archive_source_base = b]
          /\ pc' = FirstStep(req')
    /\ cwd0' = cwd
    /\ runs' = 1
    /\ UNCHANGED <<cwd, old_cwd, idx, err, failedAt, files, written, prev>>
    /\ UNCHANGED gvars

\* single-output mode: write_unix(out_file_path)
WriteUnixFirst ==
    /\ pc = "write_unix_first"
    /\ files' = write_unix(files, Get(req.unixify), req.out_file_path, None)
    /\ pc' = "zip_open"
    /\ UNCHANGED <<req, cwd, cwd0, old_cwd, idx, err, failedAt, written, room, runs, prev>>
    /\ UNCHANGED gvars

\* write_zip_app: pyz = zipfile.ZipFile(file_path, mode, ...)
OpenZip ==
    /\ pc = "zip_open"
    /\ files' = [files EXCEPT ![req.out_file_path] = ZipFile(@, ZipMode(req))]
    /\ pc' = IF req.include_directory = None THEN AfterIncludes(req, 0, NoError) ELSE "chdir"
    /\ UNCHANGED <<req, cwd, cwd0, old_cwd, idx, err, failedAt, written, room, runs, prev>>
    /\ UNCHANGED gvars

\* old_cwd = os.getcwd(); os.chdir(include_directory)
ChangeDir ==
    /\ pc = "chdir"
    /\ old_cwd' = cwd
    /\ IF IsDir(Get(req.include_directory))
       THEN /\ cwd' = Get(req.include_directory)
            /\ err' = NoError
            /\ pc' = AfterIncludes(req, 0, NoError)
       ELSE /\ cwd' = cwd
            /\ err' = "OSError"
            /\ pc' = "close"
    /\ UNCHANGED <<req, cwd0, idx, failedAt, files, written, room, runs, prev>>
    /\ UNCHANGED gvars

\* add_includes: one iteration, add_include_path(pyz, archive_source_base_path, include)
AddInclude ==
    /\ pc = "add_includes"
    /\ LET i == idx + 1
           att == add_include_path(cwd, ArchiveSourceBasePath(req), req.includes[i])
           res == Completed(att.writes, att.error, room, Len(written))
       IN  /\ idx' = i
           /\ files' = [files EXCEPT ![req.out_file_path].members =
                            @ \o [k \in 1..Len(res.writes) |-> FileMember(cwd, res.writes[k])]]
           /\ written' = written \o
                  [k \in 1..Len(res.writes) |->
                      [by |-> i, arcname |-> res.writes[k].arcname,
                       name |-> ZipArcname(res.writes[k].arcname)]]
           /\ err' = res.error
           /\ failedAt' = IF res.error = NoError THEN 0 ELSE i
           /\ pc' = AfterIncludes(req, i, res.error)
    /\ UNCHANGED <<req, cwd, cwd0, old_cwd, room, runs, prev>>
    /\ UNCHANGED gvars

\* finally: os.chdir(old_cwd)
RestoreDir ==
    /\ pc = "restore"
    /\ cwd' = RestoredCwd(old_cwd, cwd, err)
    /\ pc' = IF err = NoError THEN "write_main" ELSE "close"
    /\ UNCHANGED <<req, cwd0, old_cwd, idx, err, failedAt, files, written, room, runs, prev>>
    /\ UNCHANGED gvars

\* pyz.writestr("__main__.py", generate_main(...))
WriteMain ==
    /\ pc = "write_main"
    /\ LET res == Completed(bootstrap_writes(ArchiveSourceBasePath(req), req), NoError,
                             room, Len(written))
           ws == res.writes
       IN  /\ err' = res.error
           /\ files' = [files EXCEPT ![req.out_file_path].members = @ \o ws]
           /\ written' = written \o
                  [k \in 1..Len(ws) |-> [by |-> 0, arcname |-> ws[k].name, name |-> ws[k].name]]
    /\ pc' = "close"
    /\ UNCHANGED <<req, cwd, cwd0, old_cwd, idx, failedAt, room, runs, prev>>
    /\ UNCHANGED gvars

\* finally: pyz.close(); then build() goes on, returns or lets the exception out
CloseZip ==
    /\ pc = "close"
    /\ files' = [files EXCEPT ![req.out_file_path].closed = TRUE]
    /\ pc' = IF err # NoError THEN "raised"
             ELSE IF TwoOutput(req) THEN "write_unix_second" ELSE "returned"
    /\ UNCHANGED <<req, cwd, cwd0, old_cwd, idx, err, failedAt, written, room, runs, prev>>
    /\ UNCHANGED gvars

\* two-output mode: write_unix(unix_out_file_path, append_file_path=out_file_path)
WriteUnixSecond ==
    /\ pc = "write_unix_second"
    /\ files' = write_unix(files, Get(req.unixify), Get(Get(req.unixify).out_file_path),
                           Some(req.out_file_path))
    /\ pc' = "returned"
    /\ UNCHANGED <<req, cwd, cwd0, old_cwd, idx, err, failedAt, written, room, runs, prev>>
    /\ UNCHANGED gvars

\* build() is called again with the same arguments, the disk left as it is
Rebuild ==
    /\ pc = "returned"
    /\ runs < MaxRuns
    /\ prev' = files
    /\ runs' = runs + 1
    /\ cwd0' = cwd
    /\ idx' = 0
    /\ err' = NoError
    /\ failedAt' = 0
    /\ written' = <<>>
    /\ pc' = FirstStep(req)
    /\ UNCHANGED <<req, cwd, old_cwd, files, room>>
    /\ UNCHANGED gvars

Next ==
    \/ CallBuild
    \/ WriteUnixFirst
    \/ OpenZip
    \/ ChangeDir
    \/ AddInclude
    \/ RestoreDir
    \/ WriteMain
    \/ CloseZip
    \/ WriteUnixSecond
    \/ Rebuild

(***************************************************************************)
(* The bootstrap scenario: a VersionRequirement is constructed,            *)
(* generate_main renders __main__.py, and an interpreter runs it.          *)
(***************************************************************************)
ReqVersions ==
    {<<2, 7, 0>>, <<3, 0, 0>>} \cup {<<3, m, p>> : m \in 0..MaxMinor, p \in 0..MaxMicro}

RunningVersions ==
    {<<2, 6, 0>>, <<2, 7, 0>>, <<2, 9, 9>>, <<3, 0, 0>>}
    \cup {<<M, m, p>> : M \in {2, 3}, m \in 0..MaxMinor, p \in 0..MaxMicro}

\* sys.version_info: (major, minor, micro, releaselevel, serial)
VersionInfos == {<<t[1], t[2], t[3], lvl, 0>> : t \in RunningVersions, lvl \in {"candidate", "final"}}

OptionalVersions == {None} \cup {Some(t) : t \in ReqVersions}

InitGuard ==
    /\ gpc = "new"
    /\ vr = None
    /\ main_text = None
    /\ v = <<>>
    /\ exited = FALSE

ConstructRequirement ==
    /\ gpc = "new"
    /\ \E lo \in OptionalVersions, hi \in OptionalVersions, ex \in BOOLEAN :
          vr' = Some(VersionRequirement(lo, hi, ex))
    /\ gpc' = "requirement"
    /\ UNCHANGED <<main_text, v, exited>>
    /\ UNCHANGED bvars

GenerateMain ==
    /\ gpc = "requirement"
    /\ main_text' = Some(generate_main(Join(<<"dist">>, <<"main">>), None, vr))
    /\ gpc' = "generated"
    /\ UNCHANGED <<vr, v, exited>>
    /\ UNCHANGED bvars

RunMain ==
    /\ gpc = "generated"
    /\ \E info \in VersionInfos :
          /\ v' = info
          /\ exited' = GuardTriggers(Get(main_text), info)
    /\ gpc' = "ran"
    /\ UNCHANGED <<vr, main_text>>
    /\ UNCHANGED bvars

NextGuard ==
    \/ ConstructRequirement
    \/ GenerateMain
    \/ RunMain

Init == InitBuild /\ InitGuard

Spec == Init /\ [][Next]_vars

SpecGuard == Init /\ [][NextGuard]_vars

(***************************************************************************)
(* Properties.                                                             *)
(***************************************************************************)
\* the working directory in which the include items of the call are resolved
IncludeCwd == IF req.include_directory = None THEN cwd0 ELSE Get(req.include_directory)

IncludeSource(i) == AbsPath(IncludeCwd, req.includes[i].source_path)

WrittenBy(i) == {k \in 1..Len(written) : written[k].by = i}

IsPrefix(a, b) == Len(a) <= Len(b) /\ SubSeq(b, 1, Len(a)) = a

\* C1: when build was called with an include directory, the working directory
\* at the moment build returns or raises equals the working directory at the
\* moment it was called, on every exit path (also when os.chdir itself fails).
C1_CwdRestored ==
    (pc \in {"returned", "raised"} /\ req.include_directory # None) => cwd = cwd0

C1_Witness ==
    /\ pc = "raised"
    /\ err = "IOError"
    /\ req.include_directory = Some(ProjDir)
    /\ written # <<>>
    /\ cwd = StartDir

Lex3Lt(a, b) ==
    \/ a[1] < b[1]
    \/ a[1] = b[1] /\ a[2] < b[2]
    \/ a[1] = b[1] /\ a[2] = b[2] /\ a[3] < b[3]

RunningVersion == <<v[1], v[2], v[3]>>

\* C2: with a minimum and an exclusive maximum, the generated guard triggers
\* exactly when the running (major, minor, patch) is below the minimum or at or
\* above the maximum.
C2_ExclusiveRangeGuard ==
    (gpc = "ran" /\ Get(vr).minimum # None /\ Get(vr).maximum # None
        /\ Get(vr).exclusive_maximum)
    => (exited <=> (\/ Lex3Lt(RunningVersion, Get(Get(vr).minimum))
                    \/ ~Lex3Lt(RunningVersion, Get(Get(vr).maximum))))

C2_Witness ==
    /\ gpc = "ran"
    /\ vr = Some(VersionRequirement(Some(<<2, 7, 0>>), Some(<<3, 0, 0>>), TRUE))
    /\ RunningVersion = <<2, 9, 9>>
    /\ ~exited

\* C3: with an inclusive maximum the guard does not trigger when the running
\* (major, minor, patch) equals the maximum; with minimum = maximum it triggers
\* for every other running version and only for those.
C3_InclusiveMaximumGuard ==
    (gpc = "ran" /\ Get(vr).maximum # None /\ ~Get(vr).exclusive_maximum)
    => /\ RunningVersion = Get(Get(vr).maximum) => ~exited
       /\ Get(vr).minimum = Get(vr).maximum
              => (exited <=> RunningVersion # Get(Get(vr).maximum))

MappedDirectory(i) ==
    /\ IsDir(IncludeSource(i))
    /\ req.includes[i].source_path # req.includes[i].destination_path

\* C4: once an include item whose source is a directory and whose destination
\* differs from it has been handed to add_include_path, build is raising a
\* ValueError from that item: the item wrote no member, no later item was
\* processed, __main__.py is not written and build does not return.
C4_MappedDirectoryRaises ==
    \A i \in 1..Len(req.includes) :
        (MappedDirectory(i) /\ idx >= i)
        => /\ err = "ValueError"
           /\ failedAt = i
           /\ idx = i
           /\ pc \in {"restore", "close", "raised"}
           /\ \A k \in 1..Len(written) : written[k].by \in 1..(i - 1)
           /\ \A k \in 1..Len(files[req.out_file_path].members) :
                  files[req.out_file_path].members[k].name # MainName

C4_Witness ==
    /\ pc = "raised"
    /\ err = "ValueError"
    /\ Len(req.includes) = 2
    /\ failedAt = 2
    /\ MappedDirectory(2)
    /\ WrittenBy(1) # {}
    /\ files[req.out_file_path].closed

MissingOrUnreadable(i) ==
    \/ IncludeSource(i) \notin FileSet /\ ~IsDir(IncludeSource(i))
    \/ IncludeSource(i) \in Unreadable

\* C5: a build in which some include item names a missing or unreadable file
\* does not return successfully.
C5_MissingSourceAborts ==
    pc = "returned" => \A i \in 1..Len(req.includes) : ~MissingOrUnreadable(i)

IsBootstrap(m) == m.name = MainName /\ m.text # <<>>

\* C6: in every archive of a completed build every member other than the
\* bootstrap member __main__.py has a name under the archive root.
C6_MembersUnderRoot ==
    pc = "returned"
    => \A p \in OutPaths : \A k \in 1..Len(files[p].members) :
           \/ IsBootstrap(files[p].members[k])
           \/ IsPrefix(ArchiveSourceBasePath(req), files[p].members[k].name)

\* two-output mode writing two different files
TwoFiles == TwoOutput(req) /\ Get(Get(req.unixify).out_file_path) # req.out_file_path

UnixOut == Get(Get(req.unixify).out_file_path)

HasBootstrap(f) == \E k \in 1..Len(f.members) : IsBootstrap(f.members[k])

C7_Final ==
    (pc = "returned" /\ TwoFiles)
    => /\ files[req.out_file_path].exists
       /\ files[req.out_file_path].closed
       /\ files[req.out_file_path].prefix = <<>>
       /\ HasBootstrap(files[req.out_file_path])
       /\ files[UnixOut] =
              [exists |-> TRUE,
               prefix |-> << <<"#!", Get(req.unixify).shebang, "\n">> >>,
               members |-> files[req.out_file_path].members,
               closed |-> TRUE]

C7_CopyAfterClose ==
    (TwoFiles /\ files'[UnixOut] # files[UnixOut])
    => /\ files[req.out_file_path].closed
       /\ HasBootstrap(files[req.out_file_path])
       /\ files'[req.out_file_path] = files[req.out_file_path]

BootstrapWrites == {k \in 1..Len(written) : written[k].by = 0 /\ written[k].name = MainName}

\* C8: in every launcher mode the bootstrap member is never followed by another
\* write, is written at most once, and in a completed build exactly once, after
\* the members of all include items.
C8_BootstrapLast ==
    /\ \A k \in BootstrapWrites : k = Len(written)
    /\ Cardinality(BootstrapWrites) <= 1
    /\ pc = "returned" => /\ Cardinality(BootstrapWrites) = 1
                          /\ idx = Len(req.includes)
                          /\ written[Len(written)].by = 0

C8_Witness ==
    /\ pc = "returned"
    /\ SingleOutput(req)
    /\ Len(written) > 2
    /\ WrittenBy(1) # {} /\ WrittenBy(2) # {}
    /\ written[Len(written)].name = MainName

Count(ms, m) == Cardinality({k \in 1..Len(ms) : ms[k] = m})

SameOutput(f, g) ==
    /\ f.exists = g.exists
    /\ f.prefix = g.prefix
    /\ f.closed = g.closed
    /\ \A k \in 1..Len(f.members) : Count(f.members, f.members[k]) = Count(g.members, f.members[k])
    /\ \A k \in 1..Len(g.members) : Count(f.members, g.members[k]) = Count(g.members, g.members[k])

\* C9: a second completed build with the same arguments leaves every output
\* file as the first one left it (same header, same members, same bootstrap
\* text), with exactly one header line in single-output mode.
C9_Idempotent ==
    (pc = "returned" /\ runs >= 2)
    => /\ \A p \in OutPaths : SameOutput(files[p], prev[p])
       /\ SingleOutput(req) => Len(files[req.out_file_path].prefix) = 1

C9_Witness ==
    /\ pc = "returned"
    /\ runs = 2
    /\ SingleOutput(req)
    /\ Len(files[req.out_file_path].members) > 1
    /\ prev[req.out_file_path].prefix # <<>>

DirectoryInclude(i) ==
    /\ IsDir(IncludeSource(i))
    /\ req.includes[i].source_path = req.includes[i].destination_path

\* files of the subtree of include item i whose file name matches its glob
MatchingFiles(i) ==
    {f \in FileSet : /\ IsPrefix(IncludeSource(i), f)
                     /\ fnmatch(f[Len(f)], req.includes[i].glob)}

ExpectedArcnames(i) ==
    { Join(ArchiveSourceBasePath(req),
           req.includes[i].source_path \o SubSeq(f, Len(IncludeSource(i)) + 1, Len(f)))
      : f \in MatchingFiles(i) }

====
